---- MODULE Spec2Model ----
(***************************************************************************)
(* LookML filter-link analyzer: the Loader (load_dashboard_file), the      *)
(* Coverage Analyzer (analyze_filter_links) and the upload / "Load         *)
(* Selected File" handling of main() in streamlit_app.py.                  *)
(*                                                                         *)
(* Values decoded from YAML are tagged records (k is the Python type):     *)
(* None, str, int, bool, list, dict.  A dict is a function from its        *)
(* (string) keys to values.  Floats are modelled as exact fractions        *)
(* [num, den] in lowest terms: the comparisons the code makes (== 100,     *)
(* > 0) have the same outcome on the IEEE doubles the code computes for    *)
(* every tile count a dashboard can have; rounding in the last bit is not  *)
(* modelled.                                                               *)
(***************************************************************************)
EXTENDS Integers, Sequences, FiniteSets, Bags, TLC

VARIABLES
    files,            \* the files the user can hand to the application
    dashboard_files,  \* main: the *.lookml files found in the dashboard directory
    analyzer,         \* the LookMLAnalyzer instance (dashboards, current_dashboard, filter_analysis)
    session,          \* st.session_state: current_dashboard, filter_analysis
    pc,               \* main: position in the current script run
    run,              \* main: widget values of the current script run
    tmp_files,        \* main: number of temporary upload files left on disk
    last,             \* the last call: operation, argument (file path or history index), return value,
                      \* exception raised, dashboard analysed before
    loaded,           \* the dashboards returned by the successful load calls, in call order
    results,          \* every <<dashboard, returned analysis>> pair seen so far
    launcher          \* run_app.py: the environment and the progress of the launcher process

vars ==
    <<files, dashboard_files, analyzer, session, pc, run, tmp_files, last, loaded, results,
      launcher>>

(***************************************************************************)
(* Bounds                                                                  *)
(***************************************************************************)
MaxFilters == 2
MaxTiles == 2
MaxLoads == 2

(***************************************************************************)
(* Python values                                                           *)
(***************************************************************************)
YNull == [k |-> "null"]
YStr(s) == [k |-> "str", s |-> s]
YInt(n) == [k |-> "int", n |-> n]
YBool(b) == [k |-> "bool", b |-> b]
YList(q) == [k |-> "list", q |-> q]
YMap(m) == [k |-> "map", m |-> m]

EmptyMap == YMap(<<>>)
EmptyList == YList(<<>>)

\* bool(v)
Truthy(v) ==
    CASE v.k = "null" -> FALSE
      [] v.k = "str" -> v.s # ""
      [] v.k = "int" -> v.n # 0
      [] v.k = "bool" -> v.b
      [] v.k = "list" -> Len(v.q) > 0
      [] v.k = "map" -> DOMAIN v.m # {}

\* str(v), for the scalar values
py_str(v) ==
    CASE v.k = "str" -> v.s
      [] v.k = "null" -> "None"
      [] v.k = "int" -> ToString(v.n)
      [] v.k = "bool" -> IF v.b THEN "True" ELSE "False"

\* a == b: bool is a subtype of int (True == 1, False == 0)
IsNum(v) == v.k \in {"int", "bool"}
NumVal(v) == IF v.k = "int" THEN v.n ELSE IF v.b THEN 1 ELSE 0
PyEq(a, b) == IF IsNum(a) /\ IsNum(b) THEN NumVal(a) = NumVal(b) ELSE a = b

\* The characters of a string.  The strings of the model that take part in
\* a containment test are "", single letters and the ones listed here.
Chars(s) ==
    CASE s = "" -> <<>>
      [] s = "AB" -> <<"A", "B">>
      [] s = "f1" -> <<"f", "1">>
      [] s = "f2" -> <<"f", "2">>
      [] s = "F2" -> <<"F", "2">>
      [] OTHER -> <<s>>

\* x occurs in y as a run of consecutive characters
IsInfix(x, y) == \E i \in 0..(Len(y) - Len(x)) : \A j \in 1..Len(x) : y[i + j] = x[j]

\* a in b, for two strings
IsSubstring(a, b) == IsInfix(Chars(a), Chars(b))

\* s.lower(), as characters
LowerChar(c) ==
    CASE c = "A" -> "a"
      [] c = "B" -> "b"
      [] c = "F" -> "f"
      [] OTHER -> c
lower(s) == [i \in 1..Len(Chars(s)) |-> LowerChar(Chars(s)[i])]

\* x in c raises TypeError: c is not a container, x is unhashable (dict
\* lookup), or x is not a string (string containment)
InRaises(x, c) ==
    CASE c.k = "map" -> x.k \in {"list", "map"}
      [] c.k = "list" -> FALSE
      [] c.k = "str" -> x.k # "str"
      [] OTHER -> TRUE

\* x in c, when it does not raise
In(x, c) ==
    CASE c.k = "map" -> x.k = "str" /\ x.s \in DOMAIN c.m
      [] c.k = "list" -> \E i \in 1..Len(c.q) : PyEq(c.q[i], x)
      [] c.k = "str" -> IsSubstring(x.s, c.s)

\* d.get(key, default); the caller has checked that d is a dict
dict_get(d, key, default) == IF key \in DOMAIN d.m THEN d.m[key] ELSE default

\* [r['title'] for r in records]
TitlesIn(records) == [j \in 1..Len(records) |-> records[j].title]

\* x.get raises AttributeError unless x is a dict
HasGet(x) == x.k = "map"

(***************************************************************************)
(* Floats, as fractions in lowest terms                                    *)
(***************************************************************************)
RECURSIVE GCD(_, _)
GCD(a, b) == IF b = 0 THEN a ELSE GCD(b, a % b)

Frac(n, d) == LET g == GCD(n, d) IN [num |-> n \div g, den |-> d \div g]
Zero == [num |-> 0, den |-> 1]
Hundred == [num |-> 100, den |-> 1]
float_div(a, b) == Frac(a, b)
float_mul(x, c) == Frac(x.num * c, x.den)
float_add(x, y) == Frac(x.num * y.den + y.num * x.den, x.den * y.den)
float_ge(x, n) == x.num >= n * x.den

\* sum(q), for a sequence of floats
RECURSIVE float_sum(_)
float_sum(q) == IF q = <<>> THEN Zero ELSE float_add(float_sum(SubSeq(q, 1, Len(q) - 1)), q[Len(q)])

(***************************************************************************)
(* Files.  kind: "unreadable" (open/read raises), "garbled" (the text is   *)
(* not YAML: yaml.safe_load raises), "yaml" (the text decodes to data).    *)
(***************************************************************************)
File(path, kind, data) == [path |-> path, kind |-> kind, data |-> data]

OpenRaises(file) == file.kind = "unreadable"
SafeLoadRaises(file) == file.kind = "garbled"
safe_load(file) == file.data

(***************************************************************************)
(* LookMLAnalyzer.load_dashboard_file                                      *)
(***************************************************************************)
UnknownDashboard == YStr("Unknown Dashboard")

\* isinstance(data, list) and len(data) > 0
HasFirst(data) == data.k = "list" /\ Len(data.q) > 0

\* variant: a top-level mapping is read as the dashboard
dashboard_name_of_mapping(data) ==
    IF HasFirst(data) /\ data.q[1].k = "map"
    THEN dict_get(data.q[1], "dashboard", dict_get(data.q[1], "title", UnknownDashboard))
    ELSE IF data.k = "map"
    THEN dict_get(data, "dashboard", dict_get(data, "title", UnknownDashboard))
    ELSE UnknownDashboard

\* variant: the title key is looked up first
dashboard_name_title_first(data) ==
    IF HasFirst(data) /\ data.q[1].k = "map"
    THEN dict_get(data.q[1], "title", dict_get(data.q[1], "dashboard", UnknownDashboard))
    ELSE UnknownDashboard

dashboard_name(data) ==
    IF HasFirst(data) /\ data.q[1].k = "map"
    THEN dict_get(data.q[1], "dashboard", dict_get(data.q[1], "title", UnknownDashboard))
    ELSE UnknownDashboard

\* the entries the loop over dashboard_data[key] visits
entries_of(data, key) ==
    IF /\ HasFirst(data)
       /\ data.q[1].k = "map"
       /\ key \in DOMAIN data.q[1].m
       /\ data.q[1].m[key].k = "list"
    THEN data.q[1].m[key].q
    ELSE <<>>

filters_data(data) == entries_of(data, "filters")
elements_data(data) == entries_of(data, "elements")

parse_filter(filter_data) ==
    [name |-> dict_get(filter_data, "name", YStr("")),
     title |-> dict_get(filter_data, "title", YStr("")),
     type |-> dict_get(filter_data, "type", YStr("")),
     field |-> dict_get(filter_data, "field", YStr("")),
     listens_to_filters |-> dict_get(filter_data, "listens_to_filters", EmptyList),
     model |-> dict_get(filter_data, "model", YStr("")),
     explore |-> dict_get(filter_data, "explore", YStr("")),
     default_value |-> YStr(py_str(dict_get(filter_data, "default_value", YStr("")))),
     allow_multiple_values |-> dict_get(filter_data, "allow_multiple_values", YBool(FALSE)),
     required |-> dict_get(filter_data, "required", YBool(FALSE))]

ExcludedTypes == <<YStr("text"), YStr("single_value"), YStr("single_number")>>

\* variant: a tile of an excluded type is kept when it listens to a filter
is_data_bound_or_listening(element_data) ==
    \/ ~In(dict_get(element_data, "type", YNull), YList(ExcludedTypes))
    \/ Truthy(dict_get(element_data, "listen", EmptyMap))

\* element_data.get('type') not in ['text', 'single_value', 'single_number']
is_data_bound(element_data) ==
    ~In(dict_get(element_data, "type", YNull), YList(ExcludedTypes))

\* variant: the title key alone, without the single_value_title fallback
element_title_of_key(element_data) == dict_get(element_data, "title", YStr(""))

element_title(element_data) ==
    LET title == dict_get(element_data, "title", YStr(""))
    IN IF ~Truthy(title) THEN dict_get(element_data, "single_value_title", YStr("")) ELSE title

parse_visualization(element_data) ==
    [title |-> element_title(element_data),
     name |-> dict_get(element_data, "name", YStr("")),
     type |-> dict_get(element_data, "type", YStr("")),
     explore |-> dict_get(element_data, "explore", YStr("")),
     listen |-> dict_get(element_data, "listen", EmptyMap),
     fields |-> dict_get(element_data, "fields", EmptyList),
     row |-> dict_get(element_data, "row", YInt(0)),
     col |-> dict_get(element_data, "col", YInt(0)),
     width |-> dict_get(element_data, "width", YInt(0)),
     height |-> dict_get(element_data, "height", YInt(0))]

\* some statement of the try block raises (AttributeError on an entry
\* without .get included)
load_raises(file) ==
    \/ OpenRaises(file)
    \/ SafeLoadRaises(file)
    \/ \E i \in 1..Len(filters_data(safe_load(file))) : ~HasGet(filters_data(safe_load(file))[i])
    \/ \E i \in 1..Len(elements_data(safe_load(file))) : ~HasGet(elements_data(safe_load(file))[i])

parse_dashboard(file) ==
    LET data == safe_load(file)
        fd == filters_data(data)
        kept == SelectSeq(elements_data(data), is_data_bound)
    IN [name |-> dashboard_name(data),
        file_path |-> file.path,
        filters |-> [i \in 1..Len(fd) |-> parse_filter(fd[i])],
        visualizations |-> [i \in 1..Len(kept) |-> parse_visualization(kept[i])]]

\* variant: the except branch also resets the current dashboard
load_dashboard_file_resetting(self, file) ==
    IF load_raises(file)
    THEN [self |-> [self EXCEPT !.current_dashboard = YNull], ret |-> YNull]
    ELSE [self |-> [self EXCEPT !.dashboards = Append(@, parse_dashboard(file)),
                                !.current_dashboard = parse_dashboard(file)],
          ret |-> parse_dashboard(file)]

\* variant: the history keeps only the dashboard just loaded
load_dashboard_file_replacing(self, file) ==
    IF load_raises(file)
    THEN [self |-> self, ret |-> YNull]
    ELSE [self |-> [self EXCEPT !.dashboards = <<parse_dashboard(file)>>,
                                !.current_dashboard = parse_dashboard(file)],
          ret |-> parse_dashboard(file)]

\* the call's effect on the analyzer and its return value (None on failure)
load_dashboard_file(self, file) ==
    IF load_raises(file)
    THEN [self |-> self, ret |-> YNull]
    ELSE LET dashboard == parse_dashboard(file)
         IN [self |-> [self EXCEPT !.dashboards = Append(@, dashboard),
                                   !.current_dashboard = dashboard],
             ret |-> dashboard]

(***************************************************************************)
(* LookMLAnalyzer.analyze_filter_links                                     *)
(***************************************************************************)
\* variant: a tile is linked when it applies some filter to the filter's field
is_linked_by_field(filter_def, viz) ==
    IF viz.listen.k = "map"
    THEN \E key \in DOMAIN viz.listen.m : viz.listen.m[key] = filter_def.field
    ELSE In(filter_def.title, viz.listen)

\* filter_def['title'] in viz['listen']
is_linked(filter_def, viz) == In(filter_def.title, viz.listen)
link_raises(filter_def, viz) == InRaises(filter_def.title, viz.listen)

linked_viz(filter_def, dashboard) ==
    LET sel == SelectSeq(dashboard.visualizations, LAMBDA viz : is_linked(filter_def, viz))
    IN [i \in 1..Len(sel) |-> sel[i].title]

\* variant: the ratio, not scaled to a percentage
coverage_as_ratio(linked, dashboard) ==
    IF Len(dashboard.visualizations) > 0
    THEN float_div(Len(linked), Len(dashboard.visualizations))
    ELSE Zero

\* variant: divides by the number of filters
coverage_by_filters(linked, dashboard) ==
    IF Len(dashboard.visualizations) > 0
    THEN float_mul(float_div(Len(linked), Len(dashboard.filters)), 100)
    ELSE Zero

coverage(linked, dashboard) ==
    IF Len(dashboard.visualizations) > 0
    THEN float_mul(float_div(Len(linked), Len(dashboard.visualizations)), 100)
    ELSE Zero

\* variant: the second test is coverage >= 0
status_of_nonnegative(cov) ==
    IF cov = Hundred THEN "complete"
    ELSE IF cov.num >= 0 THEN "partial"
    ELSE "missing"

status_of(cov) ==
    IF cov = Hundred THEN "complete"
    ELSE IF cov.num > 0 THEN "partial"
    ELSE "missing"

status_color_of(cov) ==
    IF cov = Hundred THEN "#4caf50"
    ELSE IF cov.num > 0 THEN "#ff9800"
    ELSE "#ff6b6b"

analyze_filter(filter_def, dashboard) ==
    LET linked == linked_viz(filter_def, dashboard)
        cov == coverage(linked, dashboard)
    IN [filter_title |-> filter_def.title,
        filter_type |-> filter_def.type,
        field |-> filter_def.field,
        linked_visualizations |-> linked,
        coverage_percentage |-> cov,
        link_count |-> Len(linked),
        total_visualizations |-> Len(dashboard.visualizations),
        status |-> status_of(cov),
        status_color |-> status_color_of(cov),
        listens_to_filters |-> filter_def.listens_to_filters]

\* the membership test raises for some filter and tile
analyze_raises(dashboard) ==
    \E i \in 1..Len(dashboard.filters) : \E j \in 1..Len(dashboard.visualizations) :
        link_raises(dashboard.filters[i], dashboard.visualizations[j])

\* the positions of the filters whose title no earlier filter has
first_of_title(filters) ==
    SelectSeq([i \in 1..Len(filters) |-> i],
              LAMBDA i : \A j \in 1..(i - 1) : filters[j].title # filters[i].title)

\* the records of the filters at the positions idx, after acc
records_at(acc, idx, dashboard) ==
    acc \o [n \in 1..Len(idx) |-> analyze_filter(dashboard.filters[idx[n]], dashboard)]

\* variant: one record per distinct filter title
analyze_from_by_title(acc, self, dashboard) ==
    IF analyze_raises(dashboard)
    THEN [self |-> self, raised |-> TRUE, ret |-> <<>>]
    ELSE [self |-> [self EXCEPT !.filter_analysis =
                        records_at(acc, first_of_title(dashboard.filters), dashboard)],
          raised |-> FALSE,
          ret |-> records_at(acc, first_of_title(dashboard.filters), dashboard)]

\* the loop, appending to the list acc
analyze_from(acc, self, dashboard) ==
    IF analyze_raises(dashboard)
    THEN [self |-> self, raised |-> TRUE, ret |-> <<>>]
    ELSE LET filter_analysis ==
                 acc \o [i \in 1..Len(dashboard.filters) |->
                            analyze_filter(dashboard.filters[i], dashboard)]
         IN [self |-> [self EXCEPT !.filter_analysis = filter_analysis],
             raised |-> FALSE,
             ret |-> filter_analysis]

\* variant: the analysed dashboard becomes the current one
analyze_filter_links_selecting(self, dashboard) ==
    analyze_from(<<>>, [self EXCEPT !.current_dashboard = dashboard], dashboard)

\* variant: the result list is not reset at the start of a call
analyze_filter_links_accumulating(self, dashboard) ==
    analyze_from(self.filter_analysis, self, dashboard)

analyze_filter_links(self, dashboard) == analyze_from(<<>>, self, dashboard)

(***************************************************************************)
(* LookMLAnalyzer.create_summary_metrics                                   *)
(***************************************************************************)
coverages(filter_analysis) ==
    [i \in 1..Len(filter_analysis) |-> filter_analysis[i].coverage_percentage]

\* variant: every record with some link counts as partial
status_count_positive(filter_analysis, status) ==
    IF status = "partial"
    THEN Len(SelectSeq(filter_analysis, LAMBDA f : f.link_count > 0))
    ELSE Len(SelectSeq(filter_analysis, LAMBDA f : f.status = status))

\* len([f for f in filter_analysis if f['status'] == status])
status_count(filter_analysis, status) ==
    Len(SelectSeq(filter_analysis, LAMBDA f : f.status = status))

\* variant: an empty analysis counts as fully covered
avg_coverage_vacuous(filter_analysis) ==
    IF Len(filter_analysis) > 0
    THEN Frac(float_sum(coverages(filter_analysis)).num,
              float_sum(coverages(filter_analysis)).den * Len(filter_analysis))
    ELSE Hundred

\* variant: the mean over the filters that have a link
avg_coverage_of_linked(filter_analysis) ==
    IF Len(SelectSeq(filter_analysis, LAMBDA f : f.link_count > 0)) > 0
    THEN Frac(float_sum(coverages(filter_analysis)).num,
              float_sum(coverages(filter_analysis)).den
                  * Len(SelectSeq(filter_analysis, LAMBDA f : f.link_count > 0)))
    ELSE Zero

\* sum(...) / len(filter_analysis) if filter_analysis else 0
avg_coverage(filter_analysis) ==
    IF Len(filter_analysis) > 0
    THEN Frac(float_sum(coverages(filter_analysis)).num,
              float_sum(coverages(filter_analysis)).den * Len(filter_analysis))
    ELSE Zero

summary_of(dashboard, filter_analysis) ==
    [total_filters |-> Len(filter_analysis),
     total_visualizations |-> Len(dashboard.visualizations),
     complete_links |-> status_count(filter_analysis, "complete"),
     partial_links |-> status_count(filter_analysis, "partial"),
     missing_links |-> status_count(filter_analysis, "missing"),
     avg_coverage |-> avg_coverage(filter_analysis)]

create_summary_metrics(self, dashboard, filter_analysis) ==
    [self |-> self, raised |-> FALSE, ret |-> summary_of(dashboard, filter_analysis)]

(***************************************************************************)
(* LookMLAnalyzer.create_pyvis_network and create_erd_network.  A graph    *)
(* is the Network the method returns: its nodes, identified by id (a       *)
(* second add_node with an id already present adds nothing), and the bag   *)
(* of its directed edges (add_edge on a directed Network keeps repeated    *)
(* edges).  opt holds the keyword arguments of the call.                   *)
(***************************************************************************)
Options(min_coverage, max_links, show_filters, show_visualizations, value_name_filter) ==
    [min_coverage |-> min_coverage, max_links |-> max_links, show_filters |-> show_filters,
     show_visualizations |-> show_visualizations, value_name_filter |-> value_name_filter]

LinkColor == "#667eea"
DependencyColor == "#96ceb4"

Node(id, group) == [id |-> id, group |-> group]
Edge(from, to, color) == [from |-> from, to |-> to, color |-> color]
EmptyGraph == [nodes |-> {}, edges |-> EmptyBag]

\* the values a for loop over v yields; the order of the keys of a dict
\* does not matter to the bag of edges
RECURSIVE SeqOfSet(_)
SeqOfSet(S) == IF S = {} THEN <<>> ELSE LET x == CHOOSE x \in S : TRUE IN <<x>> \o SeqOfSet(S \ {x})
Iterable(v) == v.k \in {"list", "str", "map"}
items(v) ==
    CASE v.k = "list" -> v.q
      [] v.k = "str" -> [i \in 1..Len(Chars(v.s)) |-> YStr(Chars(v.s)[i])]
      [] v.k = "map" -> [i \in 1..Len(SeqOfSet(DOMAIN v.m)) |-> YStr(SeqOfSet(DOMAIN v.m)[i])]

\* [f for f in filter_analysis if f['coverage_percentage'] >= min_coverage
\*                               and f['link_count'] <= max_links]
filtered_by_thresholds(filter_analysis, opt) ==
    SelectSeq(filter_analysis,
              LAMBDA f : float_ge(f.coverage_percentage, opt.min_coverage)
                             /\ f.link_count <= opt.max_links)

\* value_name_filter.lower() in f['filter_title'].lower() or ... in f.get('field', '').lower()
matches_value_name(f, value_name_filter) ==
    \/ IsInfix(lower(value_name_filter), lower(f.filter_title.s))
    \/ IsInfix(lower(value_name_filter), lower(f.field.s))

\* .lower() of a value that is no string raises AttributeError
value_name_raises(filtered, opt) ==
    /\ opt.value_name_filter # ""
    /\ \E i \in 1..Len(filtered) :
           \/ filtered[i].filter_title.k # "str"
           \/ /\ ~IsInfix(lower(opt.value_name_filter), lower(filtered[i].filter_title.s))
              /\ filtered[i].field.k # "str"

filtered_by_value_name(filtered, opt) ==
    IF opt.value_name_filter # ""
    THEN SelectSeq(filtered, LAMBDA f : matches_value_name(f, opt.value_name_filter))
    ELSE filtered

\* any(f['filter_title'] == title for f in filtered_analysis)
visible(filtered, title) == \E i \in 1..Len(filtered) : PyEq(filtered[i].filter_title, title)

\* add_node asserts that the id is a str or an int
IsNodeId(v) == v.k \in {"str", "int", "bool"}

filter_nodes(filtered, opt) ==
    IF opt.show_filters
    THEN {Node(filtered[i].filter_title, "filter") : i \in 1..Len(filtered)}
    ELSE {}

viz_nodes(dashboard, filtered, opt) ==
    IF opt.show_visualizations
    THEN {Node(dashboard.visualizations[j].title, "visualization") :
              j \in {j \in 1..Len(dashboard.visualizations) :
                         \A n \in filter_nodes(filtered, opt) :
                             n.id # dashboard.visualizations[j].title}}
    ELSE {}

\* variant: every listen key of tile j, whether its filter is visible or not
listen_keys(dashboard, filtered, j) == DOMAIN dashboard.visualizations[j].listen.m

\* the listen keys of tile j that are titles of visible filters
visible_keys(dashboard, filtered, j) ==
    {key \in DOMAIN dashboard.visualizations[j].listen.m : visible(filtered, YStr(key))}

\* one add_edge(filter_title, viz['title']) for every tile and every listen
\* key of it that is the title of a visible filter
link_edges(dashboard, filtered, opt) ==
    IF opt.show_filters /\ opt.show_visualizations
    THEN [e \in UNION {{Edge(YStr(key), dashboard.visualizations[j].title, LinkColor) :
                           key \in visible_keys(dashboard, filtered, j)} :
                       j \in 1..Len(dashboard.visualizations)} |->
             Cardinality({j \in 1..Len(dashboard.visualizations) :
                             /\ dashboard.visualizations[j].title = e.to
                             /\ e.from.s \in visible_keys(dashboard, filtered, j)})]
    ELSE EmptyBag

\* variant: every position in the listens_to_filters of filtered[i]
named_deps(filtered, i) == 1..Len(items(filtered[i].listens_to_filters))

\* the positions in the listens_to_filters of filtered[i] that name a
\* visible filter
visible_deps(filtered, i) ==
    {n \in 1..Len(items(filtered[i].listens_to_filters)) :
        visible(filtered, items(filtered[i].listens_to_filters)[n])}

\* one add_edge(dep, filter_title) for every visible filter and every entry
\* of its listens_to_filters that is the title of a visible filter
dependency_edges(filtered, opt) ==
    IF opt.show_filters
    THEN [e \in UNION {{Edge(items(filtered[i].listens_to_filters)[n],
                              filtered[i].filter_title, DependencyColor) :
                           n \in visible_deps(filtered, i)} :
                       i \in 1..Len(filtered)} |->
             Cardinality({c \in UNION {{<<i, n>> : n \in visible_deps(filtered, i)} :
                                          i \in 1..Len(filtered)} :
                             /\ filtered[c[1]].filter_title = e.to
                             /\ items(filtered[c[1]].listens_to_filters)[c[2]] = e.from})]
    ELSE EmptyBag

\* what both methods raise: add_node with an id that is no str or int,
\* len() or .keys() of a listen value that is no dict, a for loop over a
\* listens_to_filters value that is not iterable
graph_raises(dashboard, filtered, opt) ==
    \/ /\ opt.show_filters
       /\ \E i \in 1..Len(filtered) :
              ~IsNodeId(filtered[i].filter_title) \/ ~Iterable(filtered[i].listens_to_filters)
    \/ /\ opt.show_visualizations
       /\ \E j \in 1..Len(dashboard.visualizations) :
              \/ dashboard.visualizations[j].listen.k \in {"null", "int", "bool"}
              \/ ~IsNodeId(dashboard.visualizations[j].title)
              \/ opt.show_filters /\ dashboard.visualizations[j].listen.k # "map"

graph_of(dashboard, filtered, opt) ==
    [nodes |-> filter_nodes(filtered, opt) \cup viz_nodes(dashboard, filtered, opt),
     edges |-> link_edges(dashboard, filtered, opt) (+) dependency_edges(filtered, opt)]

\* variant: the filtered list is kept on the analyzer
create_pyvis_network_storing(self, dashboard, filter_analysis, opt) ==
    IF graph_raises(dashboard, filtered_by_thresholds(filter_analysis, opt), opt)
    THEN [self |-> self, raised |-> TRUE, ret |-> EmptyGraph]
    ELSE [self |-> [self EXCEPT !.filter_analysis = filtered_by_thresholds(filter_analysis, opt)],
          raised |-> FALSE,
          ret |-> graph_of(dashboard, filtered_by_thresholds(filter_analysis, opt), opt)]

create_pyvis_network(self, dashboard, filter_analysis, opt) ==
    IF graph_raises(dashboard, filtered_by_thresholds(filter_analysis, opt), opt)
    THEN [self |-> self, raised |-> TRUE, ret |-> EmptyGraph]
    ELSE [self |-> self, raised |-> FALSE,
          ret |-> graph_of(dashboard, filtered_by_thresholds(filter_analysis, opt), opt)]

\* the filtered list of create_erd_network
erd_filtered(filter_analysis, opt) ==
    filtered_by_value_name(filtered_by_thresholds(filter_analysis, opt), opt)

\* the labels of the ERD nodes: a field or an explore that cannot be
\* sliced and left-aligned (anything but a str), a type that cannot be
\* left-aligned, a tile title that cannot be sliced
erd_label_raises(dashboard, filtered, opt) ==
    \/ /\ opt.show_filters
       /\ \E i \in 1..Len(filtered) :
              \/ filtered[i].field.k # "str"
              \/ filtered[i].filter_type.k \in {"null", "list", "map"}
    \/ /\ opt.show_visualizations
       /\ \E j \in 1..Len(dashboard.visualizations) :
              \/ dashboard.visualizations[j].title.k \notin {"str", "list"}
              \/ dashboard.visualizations[j].explore.k # "str"
              \/ dashboard.visualizations[j].type.k \in {"null", "list", "map"}

create_erd_network(self, dashboard, filter_analysis, opt) ==
    IF \/ value_name_raises(filtered_by_thresholds(filter_analysis, opt), opt)
       \/ graph_raises(dashboard, erd_filtered(filter_analysis, opt), opt)
       \/ erd_label_raises(dashboard, erd_filtered(filter_analysis, opt), opt)
    THEN [self |-> self, raised |-> TRUE, ret |-> EmptyGraph]
    ELSE [self |-> self, raised |-> FALSE,
          ret |-> graph_of(dashboard, erd_filtered(filter_analysis, opt), opt)]

(***************************************************************************)
(* The source documents of the model                                       *)
(***************************************************************************)
SeqsUpTo(S, n) == UNION {[1..m -> S] : m \in 0..n}

\* filter entries
FilterA == YMap([title |-> YStr("A"), name |-> YStr("a"), type |-> YStr("field_filter"),
                 field |-> YStr("f1"), default_value |-> YInt(7)])
FilterB == YMap([title |-> YStr("B"), name |-> YStr("b"), field |-> YStr("f2"),
                 listens_to_filters |-> YList(<<YStr("A")>>), required |-> YBool(TRUE)])
FilterT1 == YMap([title |-> YStr("T1"), name |-> YStr("t"), field |-> YStr("f1")])
FilterASecond == YMap([title |-> YStr("A"), name |-> YStr("a2"), type |-> YStr("date_filter"),
                       field |-> YStr("f2")])
FilterNoTitle == YMap([name |-> YStr("c")])
FilterNoKeys == EmptyMap
FilterNotMapping == YStr("oops")

\* tile entries
TileA == YMap([title |-> YStr("T1"), name |-> YStr("t1"), type |-> YStr("looker_line"),
               explore |-> YStr("e1"), listen |-> YMap([A |-> YStr("f1")])])
TileAB == YMap([title |-> YStr("T2"), explore |-> YStr("e2"),
                listen |-> YMap([A |-> YStr("f1"), B |-> YStr("f2")])])
TileNoListen == YMap([title |-> YStr("T3"), explore |-> YStr("e1")])
TileText == YMap([title |-> YStr("X"), type |-> YStr("text"),
                  listen |-> YMap([A |-> YStr("f1")])])
TileSingleValueTitle == YMap([single_value_title |-> YStr("SV"), type |-> YStr("looker_grid"),
                              listen |-> YMap([B |-> YStr("f2")])])
TileSingleValue == YMap([title |-> YStr("V"), type |-> YStr("single_value"),
                         listen |-> YMap([A |-> YStr("f1")])])
TileSingleNumber == YMap([title |-> YStr("N"), type |-> YStr("single_number"),
                          listen |-> YMap([A |-> YStr("f1")])])
TileSameTitle == YMap([title |-> YStr("T1"), type |-> YStr("looker_grid"),
                       explore |-> YStr("e2"), listen |-> YMap([B |-> YStr("f2")])])
TileListenNull == YMap([title |-> YStr("T4"), listen |-> YNull])
TileListenScalar == YMap([title |-> YStr("T5"), listen |-> YStr("AB")])
TileListenList == YMap([listen |-> YList(<<YStr("A")>>)])
TileNotMapping == YInt(7)

\* a document of the expected shape: a sequence holding one mapping
Document(fs, ts) ==
    YList(<<YMap([dashboard |-> YStr("D"), filters |-> YList(fs), elements |-> YList(ts)])>>)

\* well-formed entries, some lacking keys
CoreDocuments ==
    {Document(fs, ts) :
        fs \in SeqsUpTo({FilterA, FilterB, FilterNoTitle}, MaxFilters),
        ts \in SeqsUpTo({TileA, TileAB, TileNoListen}, MaxTiles)}

\* tiles of an excluded type, tiles titled by single_value_title
TileKindDocuments ==
    {Document(fs, ts) :
        fs \in SeqsUpTo({FilterA, FilterB}, MaxFilters),
        ts \in SeqsUpTo({TileA, TileText, TileSingleValueTitle}, MaxTiles)}

\* entries that are no mapping or have no keys
MalformedDocuments ==
    {Document(fs, ts) :
        fs \in SeqsUpTo({FilterA, FilterNoKeys, FilterNotMapping}, MaxFilters),
        ts \in SeqsUpTo({TileA, TileNotMapping}, MaxTiles)}

\* listen values that are no mapping
ListenDocuments ==
    {Document(fs, ts) :
        fs \in SeqsUpTo({FilterA, FilterNoTitle}, MaxFilters),
        ts \in SeqsUpTo({TileA, TileListenNull, TileListenScalar, TileListenList}, MaxTiles)}

\* other top-level shapes and name keys
ShapeDocuments ==
    {YNull, YStr("x"), EmptyList, EmptyMap, YList(<<YStr("x")>>), YList(<<EmptyMap>>),
     YMap([dashboard |-> YStr("D"), filters |-> YList(<<FilterA>>)]),
     YList(<<YMap([title |-> YStr("T")])>>),
     YList(<<YMap([dashboard |-> YStr("D"), title |-> YStr("T")])>>),
     YList(<<YMap([dashboard |-> YNull, filters |-> YStr("x"), elements |-> YNull])>>),
     YList(<<YMap([filters |-> YList(<<FilterA>>), elements |-> YMap([a |-> TileA])])>>),
     YList(<<YMap([title |-> YNull, elements |-> YList(<<TileA>>)])>>)}

Documents ==
    CoreDocuments \cup TileKindDocuments \cup MalformedDocuments \cup ListenDocuments
        \cup ShapeDocuments

Sources ==
    {File("d.lookml", "yaml", data) : data \in Documents}
        \cup {File("d.lookml", "garbled", YNull), File("d.lookml", "unreadable", YNull)}

\* a directory of several files
SampleFiles ==
    {File("ok.lookml", "yaml", Document(<<FilterA, FilterB>>, <<TileA, TileAB>>)),
     File("notiles.lookml", "yaml", Document(<<FilterB>>, <<>>)),
     File("null.lookml", "yaml", Document(<<FilterA>>, <<TileListenNull>>)),
     File("bad.lookml", "yaml", Document(<<FilterNotMapping>>, <<TileA>>)),
     File("garbled.lookml", "garbled", YNull),
     File("gone.lookml", "unreadable", YNull)}

\* LookMLAnalyzer.__init__
NewAnalyzer == [dashboards |-> <<>>, current_dashboard |-> YNull, filter_analysis |-> <<>>]

(***************************************************************************)
(* test_analyzer.py: its own LookMLAnalyzer, and the run of its main on    *)
(* one file, next to the same steps taken by the application               *)
(***************************************************************************)
test_parse_filter(filter_data) ==
    [name |-> dict_get(filter_data, "name", YStr("")),
     title |-> dict_get(filter_data, "title", YStr("")),
     type |-> dict_get(filter_data, "type", YStr("")),
     field |-> dict_get(filter_data, "field", YStr("")),
     listens_to_filters |-> dict_get(filter_data, "listens_to_filters", EmptyList),
     model |-> dict_get(filter_data, "model", YStr("")),
     explore |-> dict_get(filter_data, "explore", YStr(""))]

\* variant: the title as the application reads it
test_parse_visualization_with_fallback(element_data) ==
    [title |-> element_title(element_data),
     name |-> dict_get(element_data, "name", YStr("")),
     type |-> dict_get(element_data, "type", YStr("")),
     explore |-> dict_get(element_data, "explore", YStr("")),
     listen |-> dict_get(element_data, "listen", EmptyMap),
     fields |-> dict_get(element_data, "fields", EmptyList)]

test_parse_visualization(element_data) ==
    [title |-> dict_get(element_data, "title", YStr("")),
     name |-> dict_get(element_data, "name", YStr("")),
     type |-> dict_get(element_data, "type", YStr("")),
     explore |-> dict_get(element_data, "explore", YStr("")),
     listen |-> dict_get(element_data, "listen", EmptyMap),
     fields |-> dict_get(element_data, "fields", EmptyList)]

test_load_raises(file) ==
    \/ OpenRaises(file)
    \/ SafeLoadRaises(file)
    \/ \E i \in 1..Len(filters_data(safe_load(file))) : ~HasGet(filters_data(safe_load(file))[i])
    \/ \E i \in 1..Len(elements_data(safe_load(file))) : ~HasGet(elements_data(safe_load(file))[i])

test_parse_dashboard(file) ==
    LET data == safe_load(file)
        fd == filters_data(data)
        kept == SelectSeq(elements_data(data),
                          LAMBDA element_data :
                              ~In(dict_get(element_data, "type", YNull), YList(ExcludedTypes)))
    IN [name |-> dashboard_name(data),
        file_path |-> file.path,
        filters |-> [i \in 1..Len(fd) |-> test_parse_filter(fd[i])],
        visualizations |-> [i \in 1..Len(kept) |-> test_parse_visualization(kept[i])]]

test_load_dashboard_file(self, file) ==
    IF test_load_raises(file)
    THEN [self |-> self, ret |-> YNull]
    ELSE LET dashboard == test_parse_dashboard(file)
         IN [self |-> [self EXCEPT !.dashboards = Append(@, dashboard),
                                   !.current_dashboard = dashboard],
             ret |-> dashboard]

test_analyze_filter_links(self, dashboard) == analyze_from(<<>>, self, dashboard)

test_create_summary_metrics(self, dashboard, filter_analysis) ==
    [self |-> self, raised |-> FALSE, ret |-> summary_of(dashboard, filter_analysis)]

\* what a run on one file yields: the dashboard (None when the load failed),
\* whether the analysis raised, the analysis and the metrics
Outcome(dashboard, raised, filter_analysis, metrics) ==
    [dashboard |-> dashboard, raised |-> raised, filter_analysis |-> filter_analysis,
     metrics |-> metrics]

\* main of test_analyzer.py with a new analyzer
test_main(file) ==
    LET l == test_load_dashboard_file(NewAnalyzer, file)
        a == test_analyze_filter_links(l.self, l.ret)
    IN IF l.ret = YNull THEN Outcome(YNull, FALSE, <<>>, YNull)
       ELSE IF a.raised THEN Outcome(l.ret, TRUE, <<>>, YNull)
       ELSE Outcome(l.ret, FALSE, a.ret, test_create_summary_metrics(a.self, l.ret, a.ret).ret)

\* the application's load, analysis and metrics with a new analyzer
app_main(file) ==
    LET l == load_dashboard_file(NewAnalyzer, file)
        a == analyze_filter_links(l.self, l.ret)
    IN IF l.ret = YNull THEN Outcome(YNull, FALSE, <<>>, YNull)
       ELSE IF a.raised THEN Outcome(l.ret, TRUE, <<>>, YNull)
       ELSE Outcome(l.ret, FALSE, a.ret, create_summary_metrics(a.self, l.ret, a.ret).ret)

(***************************************************************************)
(* main: what the "Filter Analysis & Details" tab computes from the        *)
(* session's dashboard and analysis                                        *)
(***************************************************************************)
\* the tiles of the explore, as positions
tiles_of(dashboard, explore) ==
    {j \in 1..Len(dashboard.visualizations) : dashboard.visualizations[j].explore = explore}

\* variant: the tiles of the explore that listen to a filter, counted one by one
tile_has_filter_per_tile(dashboard, explore) ==
    Cardinality({j \in tiles_of(dashboard, explore) :
                    Truthy(dashboard.visualizations[j].listen)})

\* len(tile_has_filter), the set of the titles of the explore's tiles whose
\* listen is truthy
tile_has_filter(dashboard, explore) ==
    Cardinality({dashboard.visualizations[j].title :
                    j \in {j \in tiles_of(dashboard, explore) :
                               Truthy(dashboard.visualizations[j].listen)}})

\* explore_stats after the three loops
explore_stats(dashboard) ==
    [explore \in {dashboard.visualizations[j].explore : j \in 1..Len(dashboard.visualizations)} |->
        [total_tiles |-> Cardinality(tiles_of(dashboard, explore)),
         tile_has_filter |-> tile_has_filter(dashboard, explore),
         tile_has_no_filter |-> Cardinality(tiles_of(dashboard, explore))
                                    - tile_has_filter(dashboard, explore),
         tiles |-> TitlesIn(SelectSeq(dashboard.visualizations,
                                      LAMBDA viz : viz.explore = explore))]]

\* the positions of the records whose field has the value
titled(records, field, title) == {i \in 1..Len(records) : PyEq(records[i][field], title)}

\* variant: the last record with the title
last_titled(records, field, title) ==
    IF titled(records, field, title) = {} THEN YNull
    ELSE records[CHOOSE i \in titled(records, field, title) :
                    \A k \in titled(records, field, title) : k <= i]

\* next((r for r in records if r[field] == title), None)
first_titled(records, field, title) ==
    IF titled(records, field, title) = {} THEN YNull
    ELSE records[CHOOSE i \in titled(records, field, title) :
                    \A k \in titled(records, field, title) : i <= k]

\* [viz for viz in all_viz_titles if viz not in linked_viz_titles]
unlinked_viz_titles(dashboard, filter_info) ==
    SelectSeq(TitlesIn(dashboard.visualizations),
              LAMBDA title : ~In(title, YList(filter_info.linked_visualizations)))

\* the details of the selected filter: its record, and the tile found for
\* every linked and every unlinked title
details_of(dashboard, filter_info) ==
    [filter_info |-> filter_info,
     linked |-> [n \in 1..Len(filter_info.linked_visualizations) |->
                    first_titled(dashboard.visualizations, "title",
                                 filter_info.linked_visualizations[n])],
     unlinked |-> [n \in 1..Len(unlinked_viz_titles(dashboard, filter_info)) |->
                      first_titled(dashboard.visualizations, "title",
                                   unlinked_viz_titles(dashboard, filter_info)[n])]]

\* if selected_filter: filter_info = next(...); ...
filter_details(dashboard, filter_analysis, selected_filter) ==
    IF Truthy(selected_filter)
    THEN details_of(dashboard, first_titled(filter_analysis, "filter_title", selected_filter))
    ELSE YNull

(***************************************************************************)
(* run_app.py.  The environment of the launcher: whether streamlit_app.py  *)
(* exists in the current directory, and the packages whose import          *)
(* succeeds (the others raise ImportError).                                *)
(***************************************************************************)
required_packages == <<"streamlit", "pyvis", "plotly", "pandas", "numpy", "yaml">>
AllPackages == {required_packages[i] : i \in 1..Len(required_packages)}

\* the launcher process before main() runs.  at: position in main; checked:
\* the packages __import__ was called for; missing_packages: the list of
\* check_requirements; returned: what check_requirements returned ("none"
\* before it returns); events: what the process has done, in order
NewLauncher(exists, installed) ==
    [exists |-> exists, installed |-> installed, at |-> "main", checked |-> <<>>,
     missing_packages |-> <<>>, returned |-> "none", events |-> <<>>, outcome |-> "none"]

\* variant: the loop stops at the first package that is missing
import_package_until_missing(missing_packages, installed, package) ==
    IF package \in installed \/ missing_packages # <<>>
    THEN missing_packages
    ELSE Append(missing_packages, package)

\* try: __import__(package) except ImportError: missing_packages.append(package)
import_package(missing_packages, installed, package) ==
    IF package \in installed THEN missing_packages ELSE Append(missing_packages, package)

(***************************************************************************)
(* State                                                                   *)
(***************************************************************************)
NoFile == YNull


\* main: the session_state keys after their initialisation
NewSession == [current_dashboard |-> YNull, filter_analysis |-> <<>>]

\* the dashboard has been analysed before
Analysed(dashboard) == \E p \in results : p[1] = dashboard

Call(op, arg, ret, raised, again) ==
    [op |-> op, arg |-> arg, ret |-> ret, raised |-> raised, again |-> again]

InitState ==
    /\ analyzer = NewAnalyzer
    /\ session = NewSession
    /\ pc = "idle"
    /\ run = [uploaded_file |-> NoFile, selected_file |-> NoFile]
    /\ tmp_files = 0
    /\ last = Call("init", "", YNull, FALSE, FALSE)
    /\ loaded = <<>>
    /\ results = {}
    /\ launcher = NewLauncher(TRUE, AllPackages)

Init ==
    /\ files \in {{f} : f \in Sources} \cup {SampleFiles}
    /\ dashboard_files = {}
    /\ InitState

(***************************************************************************)
(* Calls of the analyzer's methods                                         *)
(***************************************************************************)
LoadDashboardFile ==
    \E file \in files :
    \E r \in {load_dashboard_file(analyzer, file)} :
           /\ load_raises(file) \/ Len(analyzer.dashboards) < MaxLoads
           /\ analyzer' = r.self
           /\ last' = Call("load", file.path, r.ret, FALSE, FALSE)
           /\ loaded' = IF r.ret # YNull THEN Append(loaded, r.ret) ELSE loaded
           /\ UNCHANGED <<launcher, files, dashboard_files, session, pc, run, tmp_files, results>>

AnalyzeFilterLinks ==
    \E i \in 1..Len(analyzer.dashboards) :
    \E r \in {analyze_filter_links(analyzer, analyzer.dashboards[i])} :
           /\ analyzer' = r.self
           /\ last' = Call("analyze", i, r.ret, r.raised, Analysed(analyzer.dashboards[i]))
           /\ results' = IF r.raised THEN results ELSE results \cup {<<analyzer.dashboards[i], r.ret>>}
           /\ UNCHANGED <<launcher, files, dashboard_files, session, pc, run, tmp_files, loaded>>

\* a call with a dashboard and the analysis computed from it
CreateSummaryMetrics ==
    \E p \in results :
    \E r \in {create_summary_metrics(analyzer, p[1], p[2])} :
           /\ analyzer' = r.self
           /\ last' = Call("summary", [dashboard |-> p[1], filter_analysis |-> p[2]],
                           r.ret, r.raised, FALSE)
           /\ UNCHANGED <<launcher, files, dashboard_files, session, pc, run, tmp_files, loaded, results>>

Next == LoadDashboardFile \/ AnalyzeFilterLinks \/ CreateSummaryMetrics

Spec == Init /\ [][Next]_vars

(***************************************************************************)
(* Calls of the graph builders, on dashboards whose entries are mappings   *)
(* with the keys a LookML dashboard gives them.                            *)
(***************************************************************************)
GraphDocuments ==
    {Document(fs, ts) :
        fs \in SeqsUpTo({FilterA, FilterB}, MaxFilters),
        ts \in SeqsUpTo({TileA, TileAB, TileText}, MaxTiles)}

\* tiles of each excluded type
ExcludedDocuments ==
    {Document(<<FilterA>>, ts) :
        ts \in SeqsUpTo({TileA, TileText, TileSingleValue, TileSingleNumber}, MaxTiles)}

\* two tiles of one title
DuplicateDocuments ==
    {Document(<<FilterA, FilterB>>, ts) : ts \in SeqsUpTo({TileA, TileSameTitle}, MaxTiles)}

\* a filter and a tile of one title
SharedTitleDocuments ==
    {Document(fs, ts) :
        fs \in SeqsUpTo({FilterA, FilterT1}, MaxFilters), ts \in SeqsUpTo({TileA}, MaxTiles)}

\* the keyword arguments of a call: the defaults, nodes of one kind or of
\* none, thresholds that hide some filters
GraphOptions ==
    {Options(0, 100, TRUE, TRUE, ""), Options(0, 100, FALSE, TRUE, ""),
     Options(0, 100, TRUE, FALSE, ""), Options(0, 100, FALSE, FALSE, ""),
     Options(0, 1, TRUE, TRUE, ""), Options(100, 100, TRUE, TRUE, "")}

\* create_erd_network also takes a value_name_filter
ErdOptions ==
    GraphOptions \cup {Options(0, 100, TRUE, TRUE, "a"), Options(0, 100, TRUE, TRUE, "F2")}

InitGraph ==
    /\ files \in {{File("d.lookml", "yaml", data)} : data \in GraphDocuments \cup ExcludedDocuments \cup DuplicateDocuments
                                                              \cup SharedTitleDocuments}
    /\ dashboard_files = {}
    /\ InitState

\* the first load of the analyzer
LoadFirst == analyzer.dashboards = <<>> /\ LoadDashboardFile

CreatePyvisNetwork ==
    \E p \in results :
    \E opt \in GraphOptions :
    \E r \in {create_pyvis_network(analyzer, p[1], p[2], opt)} :
           /\ analyzer' = r.self
           /\ last' = Call("pyvis", [dashboard |-> p[1], filter_analysis |-> p[2], opt |-> opt],
                           r.ret, r.raised, FALSE)
           /\ UNCHANGED <<launcher, files, dashboard_files, session, pc, run, tmp_files, loaded, results>>

CreateErdNetwork ==
    \E p \in results :
    \E opt \in ErdOptions :
    \E r \in {create_erd_network(analyzer, p[1], p[2], opt)} :
           /\ analyzer' = r.self
           /\ last' = Call("erd", [dashboard |-> p[1], filter_analysis |-> p[2], opt |-> opt],
                           r.ret, r.raised, FALSE)
           /\ UNCHANGED <<launcher, files, dashboard_files, session, pc, run, tmp_files, loaded, results>>

NextGraph ==
    \/ LoadFirst
    \/ AnalyzeFilterLinks
    \/ CreateSummaryMetrics
    \/ CreatePyvisNetwork
    \/ CreateErdNetwork

SpecGraph == InitGraph /\ [][NextGraph]_vars

(***************************************************************************)
(* main(): one script run = widget values, upload handling, "Load          *)
(* Selected File" handling.  An exception that leaves a handler ends the   *)
(* script run; what the run had assigned to session_state stays.           *)
(***************************************************************************)
TmpPath == "tmp.lookml"

InitMain ==
    /\ files = SampleFiles
    /\ dashboard_files \in {SampleFiles, {}}
    /\ InitState

\* st.session_state.filter_analysis = analyzer.analyze_filter_links(dashboard),
\* a being the call's outcome
after_analyze(sess, r, a) ==
    IF a.raised
    THEN [self |-> a.self,
          session |-> [sess EXCEPT !.current_dashboard = r.ret],
          ret |-> r.ret, raised |-> TRUE, result |-> <<>>]
    ELSE [self |-> a.self,
          session |-> [current_dashboard |-> r.ret, filter_analysis |-> a.ret],
          ret |-> r.ret, raised |-> FALSE, result |-> a.ret]

\* if dashboard: ..., r being the outcome of load_dashboard_file
after_load(sess, r) ==
    IF r.ret = YNull
    THEN [self |-> r.self, session |-> sess, ret |-> r.ret, raised |-> FALSE, result |-> <<>>]
    ELSE after_analyze(sess, r, analyze_filter_links(r.self, r.ret))

\* dashboard = analyzer.load_dashboard_file(path); if dashboard: ... analyze_filter_links(dashboard)
load_and_analyze(self, sess, file) == after_load(sess, load_dashboard_file(self, file))

\* the dashboards a script run with these widget values appends to the history
Appends(file) == IF file # NoFile /\ ~load_raises(file) THEN 1 ELSE 0

\* the script run starts: the uploader's file, the selected file when the button is clicked
MainBegin ==
    /\ pc = "idle"
    /\ \E up \in {f \in files : f.kind # "unreadable"} \cup {NoFile} :
       \E sel \in dashboard_files \cup {NoFile} :
           /\ Len(analyzer.dashboards) + Appends(up) + Appends(sel) <= MaxLoads
           /\ run' = [uploaded_file |-> up, selected_file |-> sel]
    /\ pc' = "upload"
    /\ last' = Call("run", "", YNull, FALSE, FALSE)
    /\ UNCHANGED <<launcher, files, dashboard_files, analyzer, session, tmp_files, loaded, results>>

\* if uploaded_file is not None: temporary file, load, analyze, unlink
MainUpload ==
    /\ pc = "upload"
    /\ IF run.uploaded_file = NoFile
       THEN /\ pc' = "select"
            /\ last' = Call("none", "", YNull, FALSE, FALSE)
            /\ UNCHANGED <<analyzer, session, tmp_files, loaded, results>>
       ELSE \E h \in {load_and_analyze(analyzer, session,
                         File(TmpPath, run.uploaded_file.kind, run.uploaded_file.data))} :
               /\ analyzer' = h.self
               /\ session' = h.session
               /\ tmp_files' = IF h.raised THEN tmp_files + 1 ELSE tmp_files
               /\ pc' = IF h.raised THEN "idle" ELSE "select"
               /\ last' = Call("upload", run.uploaded_file.path, h.ret, h.raised, Analysed(h.ret))
               /\ loaded' = IF h.ret # YNull THEN Append(loaded, h.ret) ELSE loaded
               /\ results' = IF h.ret # YNull /\ ~h.raised
                             THEN results \cup {<<h.ret, h.result>>} ELSE results
    /\ UNCHANGED <<launcher, files, dashboard_files, run>>

\* if dashboard_files: ... if st.button("Load Selected File"): load, analyze
MainSelect ==
    /\ pc = "select"
    /\ IF dashboard_files = {} \/ run.selected_file = NoFile
       THEN /\ last' = Call("none", "", YNull, FALSE, FALSE)
            /\ UNCHANGED <<analyzer, session, loaded, results>>
       ELSE \E h \in {load_and_analyze(analyzer, session, run.selected_file)} :
               /\ analyzer' = h.self
               /\ session' = h.session
               /\ last' = Call("select", run.selected_file.path, h.ret, h.raised, Analysed(h.ret))
               /\ loaded' = IF h.ret # YNull THEN Append(loaded, h.ret) ELSE loaded
               /\ results' = IF h.ret # YNull /\ ~h.raised
                             THEN results \cup {<<h.ret, h.result>>} ELSE results
    /\ pc' = "idle"
    /\ UNCHANGED <<launcher, files, dashboard_files, run, tmp_files>>

NextMain == MainBegin \/ MainUpload \/ MainSelect

SpecMain == InitMain /\ [][NextMain]_vars

(***************************************************************************)
(* The details tab of main, for a dashboard and its non-empty analysis     *)
(* (the condition of line 662)                                             *)
(***************************************************************************)
\* filters and tiles that share a title, tiles with and without a listen value
ViewDocuments ==
    {Document(fs, ts) :
        fs \in SeqsUpTo({FilterA, FilterASecond, FilterB}, MaxFilters),
        ts \in SeqsUpTo({TileA, TileSameTitle, TileNoListen}, MaxTiles)}

InitView ==
    /\ files \in {{File("d.lookml", "yaml", data)} : data \in ViewDocuments}
    /\ dashboard_files = {}
    /\ InitState

ExploreStatistics ==
    \E p \in {p \in results : p[2] # <<>>} :
           /\ last' = Call("explore_stats", [dashboard |-> p[1], filter_analysis |-> p[2]],
                           explore_stats(p[1]), FALSE, FALSE)
           /\ UNCHANGED <<launcher, files, dashboard_files, analyzer, session, pc, run, tmp_files,
                          loaded, results>>

\* the selectbox offers the titles of the analysis records
FilterDetails ==
    \E p \in {p \in results : p[2] # <<>>} :
    \E n \in 1..Len(p[2]) :
           /\ last' = Call("details",
                           [dashboard |-> p[1], filter_analysis |-> p[2],
                            selected_filter |-> p[2][n].filter_title],
                           filter_details(p[1], p[2], p[2][n].filter_title), FALSE, FALSE)
           /\ UNCHANGED <<launcher, files, dashboard_files, analyzer, session, pc, run, tmp_files,
                          loaded, results>>

NextView ==
    \/ LoadFirst
    \/ AnalyzeFilterLinks
    \/ ExploreStatistics
    \/ FilterDetails

SpecView == InitView /\ [][NextView]_vars

(***************************************************************************)
(* One source file given to the application's analyzer and then to the     *)
(* analyzer of test_analyzer.py                                            *)
(***************************************************************************)
InitTest ==
    /\ files \in {{f} : f \in Sources}
    /\ dashboard_files = {}
    /\ InitState

ApplicationRun ==
    \E file \in files :
    \E r \in {app_main(file)} :
           /\ last.op = "init"
           /\ last' = Call("app", file.path, r, r.raised, FALSE)
           /\ UNCHANGED <<launcher, files, dashboard_files, analyzer, session, pc, run, tmp_files,
                          loaded, results>>

TestRun ==
    \E file \in files :
    \E r \in {test_main(file)} :
           /\ last.op = "app"
           /\ last' = Call("test", file.path, [app |-> last.ret, test |-> r], r.raised, FALSE)
           /\ UNCHANGED <<launcher, files, dashboard_files, analyzer, session, pc, run, tmp_files,
                          loaded, results>>

NextTest == ApplicationRun \/ TestRun

SpecTest == InitTest /\ [][NextTest]_vars

(***************************************************************************)
(* run_app.main                                                            *)
(***************************************************************************)
InitLauncher ==
    /\ files = {}
    /\ dashboard_files = {}
    /\ analyzer = NewAnalyzer
    /\ session = NewSession
    /\ pc = "idle"
    /\ run = [uploaded_file |-> NoFile, selected_file |-> NoFile]
    /\ tmp_files = 0
    /\ last = Call("init", "", YNull, FALSE, FALSE)
    /\ loaded = <<>>
    /\ results = {}
    /\ launcher \in {NewLauncher(exists, installed) :
                         exists \in BOOLEAN, installed \in SUBSET AllPackages}

application == <<files, dashboard_files, analyzer, session, pc, run, tmp_files, last, loaded, results>>

\* if not Path("streamlit_app.py").exists(): ... return
CheckFile ==
    /\ launcher.at = "main"
    /\ launcher' = [launcher EXCEPT
                        !.at = IF launcher.exists THEN "check_requirements" ELSE "exit",
                        !.events = Append(@, "exists")]
    /\ UNCHANGED application

\* check_requirements: one iteration of the loop over required_packages
ImportPackage ==
    /\ launcher.at = "check_requirements"
    /\ Len(launcher.checked) < Len(required_packages)
    /\ launcher' = [launcher EXCEPT
                        !.checked = Append(@, required_packages[Len(@) + 1]),
                        !.missing_packages =
                            import_package(@, launcher.installed,
                                           required_packages[Len(launcher.checked) + 1]),
                        !.events = Append(@, "import")]
    /\ UNCHANGED application

\* check_requirements returns: False when a package is missing; main then
\* returns, or goes on to launch
CheckRequirementsReturns ==
    /\ launcher.at = "check_requirements"
    /\ Len(launcher.checked) = Len(required_packages)
    /\ launcher' = [launcher EXCEPT
                        !.returned = IF launcher.missing_packages # <<>> THEN "False" ELSE "True",
                        !.at = IF launcher.missing_packages # <<>> THEN "exit" ELSE "launch"]
    /\ UNCHANGED application

\* subprocess.run([... "streamlit", "run", "streamlit_app.py" ...])
LaunchStreamlit ==
    /\ launcher.at = "launch"
    /\ launcher' = [launcher EXCEPT !.at = "subprocess", !.events = Append(@, "launch")]
    /\ UNCHANGED application

\* subprocess.run returns, or raises KeyboardInterrupt or another exception
SubprocessEnds ==
    /\ launcher.at = "subprocess"
    /\ \E outcome \in {"returned", "KeyboardInterrupt", "Exception"} :
           launcher' = [launcher EXCEPT !.at = "exit", !.outcome = outcome]
    /\ UNCHANGED application

NextLauncher ==
    \/ CheckFile
    \/ ImportPackage
    \/ CheckRequirementsReturns
    \/ LaunchStreamlit
    \/ SubprocessEnds

SpecLauncher == InitLauncher /\ [][NextLauncher]_vars

(***************************************************************************)
(* Properties of the analysis records                                      *)
(***************************************************************************)
\* every record an analysis returned, with the dashboard it was computed from
\* and its position in the returned list
AllRecords ==
    UNION {{[d |-> p[1], i |-> i, a |-> p[2][i]] : i \in 1..Len(p[2])} : p \in results}

TitlesOf(tiles) == [j \in 1..Len(tiles) |-> tiles[j].title]

C2_StatusByCoverage ==
    \A r \in AllRecords :
        LET cov == r.a.coverage_percentage
        IN /\ r.a.status \in {"complete", "partial", "missing"}
           /\ (r.a.status = "complete") <=> (cov.num = 100 * cov.den)
           /\ (r.a.status = "complete") <=>
                  (r.a.total_visualizations > 0 /\ r.a.link_count = r.a.total_visualizations)
           /\ (r.a.status = "partial") <=> (0 < cov.num /\ cov.num < 100 * cov.den)
           /\ (r.a.status = "missing") <=> (cov.num = 0)

\* one analysis with a complete and a partial filter, one with a missing filter
C2_Witness ==
    /\ \E p \in results :
           /\ Len(p[2]) = 2
           /\ p[2][1].status = "complete"
           /\ p[2][2].status = "partial"
    /\ \E r \in AllRecords : r.a.status = "missing"

\* the filter's title is a key of the tile's listen mapping
KeyLinked(filter_def, viz) ==
    filter_def.title.k = "str" /\ filter_def.title.s \in DOMAIN viz.listen.m

AllListenMappings(dashboard) ==
    \A j \in 1..Len(dashboard.visualizations) : dashboard.visualizations[j].listen.k = "map"

\* the dashboard with every filter's field and name, and every value of every
\* listen mapping, replaced by val
Vary(dashboard, val) ==
    [dashboard EXCEPT
        !.filters = [i \in 1..Len(dashboard.filters) |->
                        [dashboard.filters[i] EXCEPT !.field = val, !.name = val]],
        !.visualizations =
            [j \in 1..Len(dashboard.visualizations) |->
                [dashboard.visualizations[j] EXCEPT
                    !.listen = IF dashboard.visualizations[j].listen.k = "map"
                               THEN YMap([key \in DOMAIN dashboard.visualizations[j].listen.m |-> val])
                               ELSE dashboard.visualizations[j].listen]]]

VariantValues == {YStr("A"), YStr("B"), YStr("f1"), YNull}

SameLinkage(ret, r) ==
    /\ ~r.raised
    /\ Len(r.ret) = Len(ret)
    /\ \A i \in 1..Len(ret) :
        /\ r.ret[i].linked_visualizations = ret[i].linked_visualizations
        /\ r.ret[i].link_count = ret[i].link_count
        /\ r.ret[i].coverage_percentage = ret[i].coverage_percentage
        /\ r.ret[i].status = ret[i].status

\* C3: for tiles whose listen is a mapping, the tiles a record lists are those
\* with the filter's title among the keys of listen; replacing the values of the
\* listen mappings, the filters' fields and the filters' names changes neither
\* linked_visualizations nor link_count, coverage or status.
C3_LinkedByTitleKey ==
    \A p \in results :
        /\ AllListenMappings(p[1]) =>
               \A i \in 1..Len(p[2]) :
                   p[2][i].linked_visualizations =
                       TitlesOf(SelectSeq(p[1].visualizations,
                                          LAMBDA viz : KeyLinked(p[1].filters[i], viz)))
        /\ \A val \in VariantValues :
               SameLinkage(p[2], analyze_filter_links(NewAnalyzer, Vary(p[1], val)))

\* filter B (field f2) with a tile listening to {A: f1} and a tile listening to
\* {A: f1, B: f2}: linked to the second only
C3_Witness ==
    \E r \in AllRecords :
        /\ AllListenMappings(r.d)
        /\ r.a.filter_title = YStr("B")
        /\ r.a.total_visualizations = 2
        /\ r.a.linked_visualizations = <<YStr("T2")>>
        /\ r.d.visualizations[1].listen = YMap([A |-> YStr("f1")])

LinkedPositions(filter_def, dashboard) ==
    {j \in 1..Len(dashboard.visualizations) : is_linked(filter_def, dashboard.visualizations[j])}

\* the n-th smallest element of J
NthOf(J, n) == CHOOSE j \in J : Cardinality({x \in J : x < j}) = n - 1

\* C4: an analysis returns one record per filter, the i-th record carrying the
\* i-th filter's title (repeated titles included), and each record lists the
\* titles of the linked tiles in the order of the dashboard's tiles.
C4_OrderPreserved ==
    \A p \in results :
        /\ Len(p[2]) = Len(p[1].filters)
        /\ \A i \in 1..Len(p[2]) :
            /\ p[2][i].filter_title = p[1].filters[i].title
            /\ Len(p[2][i].linked_visualizations)
                   = Cardinality(LinkedPositions(p[1].filters[i], p[1]))
            /\ \A n \in 1..Len(p[2][i].linked_visualizations) :
                   p[2][i].linked_visualizations[n] =
                       p[1].visualizations[NthOf(LinkedPositions(p[1].filters[i], p[1]), n)].title

\* two filters with the same title, each linked to tiles T1 and T2 in this order
C4_Witness ==
    \E p \in results :
        /\ Len(p[1].filters) = 2
        /\ p[1].filters[1].title = p[1].filters[2].title
        /\ Len(p[2]) = 2
        /\ p[2][2].linked_visualizations = <<YStr("T1"), YStr("T2")>>

\* C5: in every record the coverage is between 0 and 100, link_count is at most
\* total_visualizations, and the coverage is 0 when there are no tiles.
C5_CoverageRange ==
    \A r \in AllRecords :
        /\ 0 <= r.a.coverage_percentage.num
        /\ r.a.coverage_percentage.den > 0
        /\ r.a.coverage_percentage.num <= 100 * r.a.coverage_percentage.den
        /\ r.a.link_count <= r.a.total_visualizations
        /\ r.a.total_visualizations = 0 => r.a.coverage_percentage = Zero

\* a filter of a dashboard without tiles, and a filter linked to both of two tiles
C5_Witness ==
    /\ \E r \in AllRecords : r.a.total_visualizations = 0 /\ r.a.status = "missing"
    /\ \E r \in AllRecords : r.a.total_visualizations = 2 /\ r.a.link_count = 2

\* C6: two analyses of the same dashboard return the same list, whatever the
\* analyzer's history, current dashboard and stored analysis before each call.
C6_Idempotent == \A p \in results : \A q \in results : p[1] = q[1] => p[2] = q[2]

\* the first of two different dashboards is analysed again, after the second
\* was analysed with another result
C6_Witness ==
    /\ last.op = "analyze"
    /\ ~last.raised
    /\ last.again
    /\ last.arg = 1
    /\ last.ret # <<>>
    /\ Len(analyzer.dashboards) = 2
    /\ \E q \in results : q[1] = analyzer.dashboards[2] /\ q[2] # last.ret

(***************************************************************************)
(* Failures                                                                *)
(***************************************************************************)
\* C7: an analysis of a dashboard that load_dashboard_file returned never
\* raises and returns one record per filter.
C7_AnalysisNeverFails ==
    last.op = "analyze" =>
        /\ ~last.raised
        /\ Len(last.ret) = Len(analyzer.dashboards[last.arg].filters)

FilterKeys ==
    {"name", "title", "type", "field", "listens_to_filters", "model", "explore",
     "default_value", "allow_multiple_values", "required"}

TileKeys ==
    {"title", "name", "type", "explore", "listen", "fields", "row", "col", "width", "height"}

\* the entry is no mapping or lacks one of the keys
Malformed(entry, keys) == entry.k # "map" \/ \E key \in keys : key \notin DOMAIN entry.m

HasMalformedEntry(data) ==
    \/ \E i \in 1..Len(filters_data(data)) : Malformed(filters_data(data)[i], FilterKeys)
    \/ \E i \in 1..Len(elements_data(data)) : Malformed(elements_data(data)[i], TileKeys)

\* C8: a decodable document whose filters or elements hold an entry that lacks
\* keys or is no mapping still loads: the call returns a dashboard, not None.
C8_MalformedEntriesLoad ==
    \A f \in files :
        (last.op = "load" /\ last.arg = f.path /\ f.kind = "yaml" /\ HasMalformedEntry(f.data))
            => last.ret # YNull

\* the file the handler at pc hands to load_dashboard_file
HandledFile ==
    IF pc = "upload" THEN run.uploaded_file
    ELSE IF pc = "select" /\ dashboard_files # {} THEN run.selected_file
    ELSE NoFile

\* C9: a load of an unreadable or undecodable file returns None, and a load
\* that returns None leaves the analyzer (history, current_dashboard,
\* filter_analysis) and the session (current_dashboard, filter_analysis) as
\* they were.
C9_FailedLoadKeepsState ==
    [][HandledFile # NoFile =>
           /\ HandledFile.kind # "yaml" => last'.ret = YNull
           /\ last'.ret = YNull => (analyzer' = analyzer /\ session' = session)]_vars

\* an undecodable upload after a dashboard was loaded and analysed
C9_Witness ==
    /\ last.op = "upload"
    /\ last.arg = "garbled.lookml"
    /\ last.ret = YNull
    /\ analyzer.current_dashboard # YNull
    /\ analyzer.filter_analysis # <<>>
    /\ session.current_dashboard # YNull
    /\ session.filter_analysis # <<>>

\* C10: the history is the list of the dashboards the successful calls
\* returned, in call order; current_dashboard is its last entry, and None
\* exactly when no call has succeeded.
C10_HistoryOfSuccessfulLoads ==
    /\ analyzer.dashboards = loaded
    /\ analyzer.current_dashboard = IF loaded = <<>> THEN YNull ELSE loaded[Len(loaded)]
    /\ (analyzer.current_dashboard = YNull) <=> (loaded = <<>>)

\* two different dashboards loaded, then a failed call
C10_Witness ==
    /\ Len(loaded) = 2
    /\ loaded[1] # loaded[2]
    /\ last.op = "load"
    /\ last.ret = YNull

(***************************************************************************)
(* Tiles of an excluded type                                               *)
(***************************************************************************)
\* the elements entries of a source that is a sequence holding one mapping
SourceElements(file) == file.data.q[1].m["elements"].q

\* the positions of the entries whose type is none of the three excluded ones
KeptPositions(es) ==
    {j \in 1..Len(es) :
        "type" \in DOMAIN es[j].m =>
            es[j].m["type"] \notin {YStr("text"), YStr("single_value"), YStr("single_number")}}

KeptTitles(es) == {es[j].m["title"] : j \in KeptPositions(es)}

\* C11: the visualizations of a loaded dashboard are the elements entries whose
\* type is not text, single_value or single_number, in source order (entries
\* without a type are kept); an excluded tile counts in no link_count and no
\* total_visualizations, and is no node and no end of a link edge of a graph.
C11_ExcludedTilesDropped ==
    \A f \in files :
        /\ (last.op = "load" /\ last.ret # YNull) =>
               /\ Len(last.ret.visualizations) = Cardinality(KeptPositions(SourceElements(f)))
               /\ \A n \in 1..Len(last.ret.visualizations) :
                      /\ last.ret.visualizations[n].title
                             = SourceElements(f)[NthOf(KeptPositions(SourceElements(f)), n)].m["title"]
                      /\ last.ret.visualizations[n].listen
                             = SourceElements(f)[NthOf(KeptPositions(SourceElements(f)), n)].m["listen"]
        /\ (last.op = "analyze" /\ ~last.raised) =>
               \A i \in 1..Len(last.ret) :
                   /\ last.ret[i].total_visualizations
                          = Cardinality(KeptPositions(SourceElements(f)))
                   /\ last.ret[i].link_count
                          = Cardinality({j \in KeptPositions(SourceElements(f)) :
                                            last.ret[i].filter_title.s
                                                \in DOMAIN SourceElements(f)[j].m["listen"].m})
        /\ (last.op = "summary") =>
               last.ret.total_visualizations = Cardinality(KeptPositions(SourceElements(f)))
        /\ (last.op \in {"pyvis", "erd"} /\ ~last.raised) =>
               /\ \A n \in last.ret.nodes :
                      n.group = "visualization" => n.id \in KeptTitles(SourceElements(f))
               /\ \A e \in BagToSet(last.ret.edges) :
                      e.color = LinkColor => e.to \in KeptTitles(SourceElements(f))
               /\ last.arg.opt.show_visualizations =>
                      KeptTitles(SourceElements(f)) \subseteq {n.id : n \in last.ret.nodes}

\* a graph with all nodes shown, of a dashboard whose source holds a tile of an
\* excluded type that listens to the filter and a tile that is kept
C11_Witness ==
    /\ last.op = "pyvis"
    /\ last.arg.opt = Options(0, 100, TRUE, TRUE, "")
    /\ \E f \in files :
           /\ \E j \in 1..Len(SourceElements(f)) : SourceElements(f)[j] = TileSingleValue
           /\ KeptPositions(SourceElements(f)) # {}
    /\ \E e \in BagToSet(last.ret.edges) : e.color = LinkColor

(***************************************************************************)
(* Sources of another shape                                                *)
(***************************************************************************)
\* the top-level value is a non-empty sequence whose first element is a mapping
HasDashboardMapping(data) == data.k = "list" /\ data.q # <<>> /\ data.q[1].k = "map"

\* the key is missing from the mapping, or its value is not a sequence
NoEntries(m, key) == key \notin DOMAIN m \/ m[key].k # "list"

\* no entry under the key that is not a mapping
OnlyMappings(m, key) == NoEntries(m, key) \/ \A i \in 1..Len(m[key].q) : m[key].q[i].k = "map"

\* C12: a decodable source whose top-level value is not a non-empty sequence
\* with a mapping first loads as a dashboard named "Unknown Dashboard" with no
\* filters and no visualizations; a missing or non-sequence filters (elements)
\* value loads as an empty filters (visualizations) list.  Neither is a failure.
C12_OtherShapesLoadEmpty ==
    \A f \in files :
        (last.op = "load" /\ last.arg = f.path /\ f.kind = "yaml") =>
            IF ~HasDashboardMapping(f.data)
            THEN /\ last.ret # YNull
                 /\ last.ret.name = YStr("Unknown Dashboard")
                 /\ last.ret.filters = <<>>
                 /\ last.ret.visualizations = <<>>
                 /\ analyzer.current_dashboard = last.ret
            ELSE /\ (NoEntries(f.data.q[1].m, "filters") /\ OnlyMappings(f.data.q[1].m, "elements")) =>
                        (last.ret # YNull /\ last.ret.filters = <<>>)
                 /\ (NoEntries(f.data.q[1].m, "elements") /\ OnlyMappings(f.data.q[1].m, "filters")) =>
                        (last.ret # YNull /\ last.ret.visualizations = <<>>)

\* a top-level mapping that has a dashboard key and a filters list was loaded
C12_Witness ==
    /\ last.op = "load"
    /\ last.ret # YNull
    /\ \E f \in files :
           /\ f.kind = "yaml"
           /\ f.data.k = "map"
           /\ "dashboard" \in DOMAIN f.data.m
           /\ "filters" \in DOMAIN f.data.m

\* C20: the name of a loaded dashboard is the value of the first mapping's
\* dashboard key when the mapping has that key, otherwise the value of its
\* title key when it has that one, otherwise "Unknown Dashboard".
C20_NameResolution ==
    \A f \in files :
        (last.op = "load" /\ last.arg = f.path /\ last.ret # YNull
             /\ HasDashboardMapping(f.data)) =>
            last.ret.name =
                IF "dashboard" \in DOMAIN f.data.q[1].m THEN f.data.q[1].m["dashboard"]
                ELSE IF "title" \in DOMAIN f.data.q[1].m THEN f.data.q[1].m["title"]
                ELSE YStr("Unknown Dashboard")

\* a mapping with both keys was loaded
C20_Witness ==
    /\ last.op = "load"
    /\ last.ret # YNull
    /\ \E f \in files :
           /\ HasDashboardMapping(f.data)
           /\ {"dashboard", "title"} \subseteq DOMAIN f.data.q[1].m
           /\ f.data.q[1].m["dashboard"] # f.data.q[1].m["title"]

(***************************************************************************)
(* Summary metrics                                                         *)
(***************************************************************************)
\* C13: the analysis of a dashboard without filters is the empty list, and the
\* summary of that list has total_filters, complete_links, partial_links,
\* missing_links and avg_coverage 0, and total_visualizations 0 when the
\* dashboard has no tiles either.
C13_NoFilters ==
    /\ (last.op = "analyze" /\ analyzer.dashboards[last.arg].filters = <<>>) =>
           (~last.raised /\ last.ret = <<>>)
    /\ (last.op = "summary" /\ last.arg.dashboard.filters = <<>>) =>
           /\ last.arg.filter_analysis = <<>>
           /\ ~last.raised
           /\ last.ret.total_filters = 0
           /\ last.ret.complete_links = 0
           /\ last.ret.partial_links = 0
           /\ last.ret.missing_links = 0
           /\ last.ret.avg_coverage = [num |-> 0, den |-> 1]
           /\ last.arg.dashboard.visualizations = <<>> => last.ret.total_visualizations = 0

\* the summary of a dashboard that has tiles and no filters
C13_Witness ==
    /\ last.op = "summary"
    /\ last.arg.dashboard.filters = <<>>
    /\ last.arg.dashboard.visualizations # <<>>
    /\ last.ret.total_visualizations > 0

\* the records of an analysis that have the status
WithStatus(filter_analysis, status) ==
    {i \in 1..Len(filter_analysis) : filter_analysis[i].status = status}

\* C14: in a summary, complete_links + partial_links + missing_links =
\* total_filters = the number of analysis records, each count being the number
\* of records of that status.
C14_StatusCountsPartition ==
    last.op = "summary" =>
        /\ last.ret.complete_links + last.ret.partial_links + last.ret.missing_links
               = last.ret.total_filters
        /\ last.ret.total_filters = Len(last.arg.filter_analysis)
        /\ last.ret.complete_links = Cardinality(WithStatus(last.arg.filter_analysis, "complete"))
        /\ last.ret.partial_links = Cardinality(WithStatus(last.arg.filter_analysis, "partial"))
        /\ last.ret.missing_links = Cardinality(WithStatus(last.arg.filter_analysis, "missing"))

\* a summary that counts a complete and a partial filter
C14_Witness ==
    /\ last.op = "summary"
    /\ last.ret.complete_links = 1
    /\ last.ret.partial_links = 1

\* the sum of the coverage percentages, as a multiple of 1/n; n is a multiple
\* of every denominator
RECURSIVE SumOverN(_, _)
SumOverN(filter_analysis, n) ==
    IF filter_analysis = <<>> THEN 0
    ELSE SumOverN(Tail(filter_analysis), n)
             + Head(filter_analysis).coverage_percentage.num
                   * (n \div Head(filter_analysis).coverage_percentage.den)

\* C15: in a summary, avg_coverage is the arithmetic mean of the records'
\* coverage_percentage (0 for no records), total_filters is the number of
\* records, and total_visualizations is the number of tiles of the dashboard
\* and the total_visualizations of every record.
C15_SummaryValues ==
    last.op = "summary" =>
        /\ last.ret.total_filters = Len(last.arg.filter_analysis)
        /\ last.ret.total_visualizations = Len(last.arg.dashboard.visualizations)
        /\ \A i \in 1..Len(last.arg.filter_analysis) :
               last.arg.filter_analysis[i].total_visualizations = last.ret.total_visualizations
        /\ IF last.arg.filter_analysis = <<>> \/ last.arg.dashboard.visualizations = <<>>
           THEN last.ret.avg_coverage = [num |-> 0, den |-> 1]
           ELSE last.ret.avg_coverage.num * Len(last.arg.filter_analysis)
                       * Len(last.arg.dashboard.visualizations)
                    = last.ret.avg_coverage.den
                          * SumOverN(last.arg.filter_analysis,
                                     Len(last.arg.dashboard.visualizations))

\* the mean of two different percentages, one of them 0
C15_Witness ==
    /\ last.op = "summary"
    /\ Len(last.arg.filter_analysis) = 2
    /\ last.arg.filter_analysis[1].coverage_percentage # last.arg.filter_analysis[2].coverage_percentage
    /\ \E i \in 1..2 : last.arg.filter_analysis[i].link_count = 0
    /\ last.ret.avg_coverage.num > 0

C17_BuildersReadOnly ==
    [][last'.op \in {"summary", "pyvis", "erd"} =>
           /\ analyzer' = analyzer
           /\ results' = results
           /\ loaded' = loaded
           /\ session' = session]_vars

\* a graph was built from the stored analysis, with a threshold that hides one
\* of its filters
C17_Witness ==
    /\ last.op = "pyvis"
    /\ ~last.raised
    /\ last.arg.opt = Options(0, 1, TRUE, TRUE, "")
    /\ last.arg.dashboard = analyzer.current_dashboard
    /\ last.arg.filter_analysis = analyzer.filter_analysis
    /\ \E i \in 1..Len(analyzer.filter_analysis) :
           \A n \in last.ret.nodes : n.id # analyzer.filter_analysis[i].filter_title
    /\ \E n \in last.ret.nodes : n.group = "filter"

(***************************************************************************)
(* The edges of the graphs                                                 *)
(***************************************************************************)
\* last is a call of a graph builder that returned a graph
GraphBuilt == last.op \in {"pyvis", "erd"} /\ ~last.raised

\* the positions of the records of the visible filters of the call: the ones
\* within the thresholds and, for the ERD, matching the value_name_filter
VisibleFilters ==
    {i \in 1..Len(last.arg.filter_analysis) :
        /\ last.arg.filter_analysis[i].coverage_percentage.num
               >= last.arg.opt.min_coverage * last.arg.filter_analysis[i].coverage_percentage.den
        /\ last.arg.filter_analysis[i].link_count <= last.arg.opt.max_links
        /\ (last.op = "erd" /\ last.arg.opt.value_name_filter # "") =>
               matches_value_name(last.arg.filter_analysis[i], last.arg.opt.value_name_filter)}

VisibleTitles == {last.arg.filter_analysis[i].filter_title : i \in VisibleFilters}

\* the titles a filter of the call lists in listens_to_filters
ListenedTo(i) ==
    {last.arg.filter_analysis[i].listens_to_filters.q[n] :
        n \in 1..Len(last.arg.filter_analysis[i].listens_to_filters.q)}

EdgesOf(color) == {e \in BagToSet(last.ret.edges) : e.color = color}
NodeIds == {n.id : n \in last.ret.nodes}

\* every title that a filter has or lists, or that is an end of an edge
AllTitles ==
    {last.arg.filter_analysis[i].filter_title : i \in 1..Len(last.arg.filter_analysis)}
        \cup UNION {ListenedTo(i) : i \in 1..Len(last.arg.filter_analysis)}
        \cup {e.from : e \in BagToSet(last.ret.edges)}
        \cup {e.to : e \in BagToSet(last.ret.edges)}

\* C18: in a graph of either builder there is a dependency edge dep -> F iff
\* filters are shown, F is the title of a visible filter that lists dep in
\* listens_to_filters, and dep is the title of a visible filter; both ends of
\* a dependency edge are nodes of the graph.
C18_DependencyEdges ==
    GraphBuilt =>
        /\ \A dep \in AllTitles, F \in AllTitles :
               (\E e \in EdgesOf(DependencyColor) : e.from = dep /\ e.to = F)
                   <=> /\ last.arg.opt.show_filters
                       /\ \E i \in VisibleFilters :
                              /\ last.arg.filter_analysis[i].filter_title = F
                              /\ dep \in ListenedTo(i)
                       /\ dep \in VisibleTitles
        /\ \A e \in EdgesOf(DependencyColor) : {e.from, e.to} \subseteq NodeIds

\* an ERD with a dependency edge between two visible filters
C18_Witness ==
    /\ last.op = "erd"
    /\ ~last.raised
    /\ Cardinality(VisibleFilters) = 2
    /\ \E e \in EdgesOf(DependencyColor) : e.from = YStr("A") /\ e.to = YStr("B")

\* the number of edges of the colour from one node to another
EdgeCount(from, to, color) ==
    IF BagIn(Edge(from, to, color), last.ret.edges)
    THEN CopiesIn(Edge(from, to, color), last.ret.edges)
    ELSE 0

\* the number of edges of the colour that leave the node
RECURSIVE OutCount(_, _, _)
OutCount(from, tos, color) ==
    IF tos = {} THEN 0
    ELSE LET to == CHOOSE to \in tos : TRUE
         IN EdgeCount(from, to, color) + OutCount(from, tos \ {to}, color)

\* the tiles of the title whose listen mapping has the key
TilesListening(key, title) ==
    {j \in 1..Len(last.arg.dashboard.visualizations) :
        /\ last.arg.dashboard.visualizations[j].title = title
        /\ key.s \in DOMAIN last.arg.dashboard.visualizations[j].listen.m}

TileTitles ==
    {last.arg.dashboard.visualizations[j].title :
        j \in 1..Len(last.arg.dashboard.visualizations)}

\* C19: with filters and tiles both shown, the graph has one edge F -> T for
\* every tile T whose listen mapping has the title of the visible filter F as
\* a key and no other link edge, so the link edges that leave a visible filter
\* are as many as its link_count; with filters or tiles hidden it has no link
\* edge.
C19_LinkEdges ==
    GraphBuilt =>
        IF last.arg.opt.show_filters /\ last.arg.opt.show_visualizations
        THEN /\ \A F \in VisibleTitles, T \in TileTitles :
                    EdgeCount(F, T, LinkColor) = Cardinality(TilesListening(F, T))
             /\ \A e \in EdgesOf(LinkColor) : e.from \in VisibleTitles /\ e.to \in TileTitles
             /\ \A i \in VisibleFilters :
                    OutCount(last.arg.filter_analysis[i].filter_title, TileTitles, LinkColor)
                        = last.arg.filter_analysis[i].link_count
        ELSE EdgesOf(LinkColor) = {}

\* a graph with a visible filter linked to two tiles and a hidden filter
C19_Witness ==
    /\ last.op = "pyvis"
    /\ ~last.raised
    /\ last.arg.opt.show_filters /\ last.arg.opt.show_visualizations
    /\ \E i \in VisibleFilters :
           /\ last.arg.filter_analysis[i].link_count = 2
           /\ OutCount(last.arg.filter_analysis[i].filter_title, TileTitles, LinkColor) = 2
    /\ VisibleFilters # 1..Len(last.arg.filter_analysis)

(***************************************************************************)
(* Defaults of absent keys                                                 *)
(***************************************************************************)
\* the entries under a key of the first mapping of a source
SourceEntries(file, key) ==
    IF NoEntries(file.data.q[1].m, key) THEN <<>> ELSE file.data.q[1].m[key].q

\* a decodable source whose entries are all mappings
WellFormed(file) ==
    /\ file.kind = "yaml"
    /\ HasDashboardMapping(file.data)
    /\ OnlyMappings(file.data.q[1].m, "filters")
    /\ OnlyMappings(file.data.q[1].m, "elements")

FilterDefaults ==
    [name |-> YStr(""), title |-> YStr(""), type |-> YStr(""), field |-> YStr(""),
     model |-> YStr(""), explore |-> YStr(""), listens_to_filters |-> YList(<<>>),
     allow_multiple_values |-> YBool(FALSE), required |-> YBool(FALSE)]

TileDefaults ==
    [name |-> YStr(""), type |-> YStr(""), explore |-> YStr(""), listen |-> YMap(<<>>),
     fields |-> YList(<<>>), row |-> YInt(0), col |-> YInt(0), width |-> YInt(0),
     height |-> YInt(0)]

\* the loaded dashboard has the default for every key, other than a tile's
\* title, that is absent from an entry of the source
AbsentKeysDefaulted(file, dashboard) ==
    /\ Len(dashboard.filters) = Len(SourceEntries(file, "filters"))
    /\ \A i \in 1..Len(dashboard.filters) :
           \A key \in DOMAIN FilterDefaults :
               key \notin DOMAIN SourceEntries(file, "filters")[i].m =>
                   dashboard.filters[i][key] = FilterDefaults[key]
    /\ Len(dashboard.visualizations)
           = Cardinality(KeptPositions(SourceEntries(file, "elements")))
    /\ \A n \in 1..Len(dashboard.visualizations) :
           \A key \in DOMAIN TileDefaults :
               key \notin DOMAIN SourceEntries(file, "elements")[
                                     NthOf(KeptPositions(SourceEntries(file, "elements")), n)].m =>
                   dashboard.visualizations[n][key] = TileDefaults[key]

\* the source entry of the n-th tile of the loaded dashboard
EntryOfTile(file, n) ==
    SourceEntries(file, "elements")[NthOf(KeptPositions(SourceEntries(file, "elements")), n)]

C22_SessionPairConsistent ==
    /\ session.current_dashboard = analyzer.current_dashboard
    /\ \/ session.filter_analysis = <<>>
       \/ \E p \in results :
              p[1] = session.current_dashboard /\ p[2] = session.filter_analysis

\* C23: when the upload handling of a script run has ended, the temporary file
\* it created is removed, whether the load returned a dashboard or None and
\* whether or not the analysis completed: no temporary file is ever left.
C23_TempFileRemoved == pc # "upload" => tmp_files = 0

(***************************************************************************)
(* The nodes of the graphs                                                 *)
(***************************************************************************)
\* a filter of the call has a node, a tile of the call has a node
FilterHasNode(i) == Node(last.arg.filter_analysis[i].filter_title, "filter") \in last.ret.nodes
TileHasNode(j) == Node(last.arg.dashboard.visualizations[j].title, "visualization") \in last.ret.nodes

NodesAsShown ==
    /\ \A i \in 1..Len(last.arg.filter_analysis) :
           FilterHasNode(i) <=> (last.arg.opt.show_filters /\ i \in VisibleFilters)
    /\ \A j \in 1..Len(last.arg.dashboard.visualizations) :
           TileHasNode(j) <=> last.arg.opt.show_visualizations

\* C24: in a graph of either builder a filter has a node iff filters are shown
\* and the filter is within the thresholds (and, for the ERD, matches a
\* non-empty value_name_filter), and every tile has a node iff tiles are shown.
C24_NodesAsShown == GraphBuilt => NodesAsShown

\* no filter of the call has the title of a tile of the call
NoSharedTitle ==
    \A i \in 1..Len(last.arg.filter_analysis) :
        last.arg.filter_analysis[i].filter_title \notin TileTitles

\* the same, for the calls in which no filter has the title of a tile
C24_NodesAsShownUnlessShared == (GraphBuilt /\ NoSharedTitle) => NodesAsShown

(***************************************************************************)
(* The launcher                                                            *)
(***************************************************************************)
Launched == \E n \in 1..Len(launcher.events) : launcher.events[n] = "launch"

\* the required packages that are not installed, in the order of the list
MissingInOrder ==
    SelectSeq(required_packages, LAMBDA package : package \notin launcher.installed)

\* C25: the launcher starts Streamlit only after it has found streamlit_app.py
\* and then imported every required package, in that order; without the file it
\* checks no package and launches nothing; with a package missing
\* check_requirements returns False with every missing package collected, and
\* nothing is launched.
C25_LaunchAfterChecks ==
    /\ Launched =>
           /\ launcher.exists /\ AllPackages \subseteq launcher.installed
           /\ launcher.events = <<"exists">> \o [n \in 1..Len(required_packages) |-> "import"]
                                     \o <<"launch">>
           /\ launcher.checked = required_packages
           /\ launcher.returned = "True"
    /\ launcher.checked # <<>> => launcher.events[1] = "exists"
    /\ ~launcher.exists => (launcher.checked = <<>> /\ ~Launched /\ launcher.returned = "none")
    /\ (launcher.exists /\ launcher.at \in {"exit", "launch", "subprocess"}) =>
           /\ launcher.checked = required_packages
           /\ launcher.missing_packages = MissingInOrder
           /\ launcher.returned = IF MissingInOrder = <<>> THEN "True" ELSE "False"
    /\ launcher.returned = "False" => (~Launched /\ launcher.at = "exit")

\* check_requirements returned False with two missing packages collected
C25_Witness ==
    /\ launcher.at = "exit"
    /\ launcher.returned = "False"
    /\ Len(launcher.missing_packages) = 2
    /\ launcher.missing_packages[1] = "streamlit"

(***************************************************************************)
(* The details tab                                                         *)
(***************************************************************************)
\* the first position of a record with the title, 0 when there is none
FirstPosition(records, field, title) ==
    IF \E i \in 1..Len(records) : records[i][field] = title
    THEN CHOOSE i \in 1..Len(records) :
             /\ records[i][field] = title
             /\ \A k \in 1..(i - 1) : records[k][field] # title
    ELSE 0

\* C26: in the detail view the record shown for the selected filter title is
\* the first analysis record of that title, and the tile looked up for a
\* linked or an unlinked title is the first tile of that title; a later record
\* or tile of the same title is never the one found.
C26_FirstMatch ==
    (last.op = "details" /\ last.ret # YNull) =>
        /\ last.ret.filter_info
               = last.arg.filter_analysis[
                     FirstPosition(last.arg.filter_analysis, "filter_title", last.arg.selected_filter)]
        /\ \A n \in 1..Len(last.ret.linked) :
               last.ret.linked[n]
                   = last.arg.dashboard.visualizations[
                         FirstPosition(last.arg.dashboard.visualizations, "title",
                                       last.ret.filter_info.linked_visualizations[n])]
        /\ \A n \in 1..Len(last.ret.unlinked) :
               /\ FirstPosition(last.arg.dashboard.visualizations, "title",
                                last.ret.unlinked[n].title) > 0
               /\ last.ret.unlinked[n]
                      = last.arg.dashboard.visualizations[
                            FirstPosition(last.arg.dashboard.visualizations, "title",
                                          last.ret.unlinked[n].title)]

\* two different filters of the selected title and two different tiles of a
\* linked title
C26_Witness ==
    /\ last.op = "details"
    /\ Len(last.arg.filter_analysis) = 2
    /\ last.arg.filter_analysis[1].filter_title = last.arg.filter_analysis[2].filter_title
    /\ last.arg.filter_analysis[1] # last.arg.filter_analysis[2]
    /\ Len(last.arg.dashboard.visualizations) = 2
    /\ last.arg.dashboard.visualizations[1].title = last.arg.dashboard.visualizations[2].title
    /\ last.arg.dashboard.visualizations[1] # last.arg.dashboard.visualizations[2]
    /\ Len(last.ret.linked) > 0

\* the tiles of the explore whose listen mapping is non-empty, is empty
TilesListeningIn(dashboard, explore) ==
    {j \in 1..Len(dashboard.visualizations) :
        /\ dashboard.visualizations[j].explore = explore
        /\ dashboard.visualizations[j].listen # YMap(<<>>)}
TilesNotListeningIn(dashboard, explore) ==
    {j \in 1..Len(dashboard.visualizations) :
        /\ dashboard.visualizations[j].explore = explore
        /\ dashboard.visualizations[j].listen = YMap(<<>>)}

RECURSIVE TotalTiles(_, _)
TotalTiles(stats, explores) ==
    IF explores = {} THEN 0
    ELSE LET explore == CHOOSE explore \in explores : TRUE
         IN stats[explore].total_tiles + TotalTiles(stats, explores \ {explore})

\* C27: in the explore statistics, for every explore tile_has_filter is the
\* number of its tiles with a non-empty listen mapping, tile_has_no_filter the
\* number of its tiles with an empty one, the two add up to total_tiles, and
\* the total_tiles of all explores add up to the number of tiles.
C27_ExploreStatistics ==
    last.op = "explore_stats" =>
        /\ \A explore \in DOMAIN last.ret :
               /\ last.ret[explore].tile_has_filter
                      = Cardinality(TilesListeningIn(last.arg.dashboard, explore))
               /\ last.ret[explore].tile_has_no_filter
                      = Cardinality(TilesNotListeningIn(last.arg.dashboard, explore))
               /\ last.ret[explore].tile_has_filter + last.ret[explore].tile_has_no_filter
                      = last.ret[explore].total_tiles
        /\ TotalTiles(last.ret, DOMAIN last.ret) = Len(last.arg.dashboard.visualizations)

(***************************************************************************)
(* The analyzer of test_analyzer.py against the application's              *)
(***************************************************************************)
BothLoaded == last.op = "test" /\ last.ret.app.dashboard # YNull /\ last.ret.test.dashboard # YNull

\* the two runs agree on everything the comparison names except the lists of
\* linked tile titles
SameButLinkedTitles(app, test) ==
    /\ Len(app.dashboard.filters) = Len(test.dashboard.filters)
    /\ Len(app.dashboard.visualizations) = Len(test.dashboard.visualizations)
    /\ app.raised = test.raised
    /\ Len(app.filter_analysis) = Len(test.filter_analysis)
    /\ \A i \in 1..Len(app.filter_analysis) :
           /\ app.filter_analysis[i].filter_title = test.filter_analysis[i].filter_title
           /\ app.filter_analysis[i].link_count = test.filter_analysis[i].link_count
           /\ app.filter_analysis[i].total_visualizations
                  = test.filter_analysis[i].total_visualizations
           /\ app.filter_analysis[i].coverage_percentage
                  = test.filter_analysis[i].coverage_percentage
           /\ app.filter_analysis[i].status = test.filter_analysis[i].status
    /\ app.metrics = test.metrics

SameLinkedTitles(app, test) ==
    \A i \in 1..Len(app.filter_analysis) :
        /\ i \in 1..Len(test.filter_analysis)
        /\ app.filter_analysis[i].linked_visualizations
               = test.filter_analysis[i].linked_visualizations

\* C28: for every source document that both the application's analyzer and
\* the analyzer of test_analyzer.py load, the two yield the same number of
\* filters and of tiles, filter by filter the same filter_title, link_count,
\* total_visualizations, coverage_percentage, status and
\* linked_visualizations, and the same summary metrics.
C28_AnalyzersEquivalent ==
    BothLoaded =>
        /\ SameButLinkedTitles(last.ret.app, last.ret.test)
        /\ SameLinkedTitles(last.ret.app, last.ret.test)

\* the same without the lists of linked tile titles; one analyzer loads a
\* document exactly when the other does
C28_EquivalentButLinkedTitles ==
    /\ last.op = "test" => (last.ret.app.dashboard = YNull <=> last.ret.test.dashboard = YNull)
    /\ BothLoaded => SameButLinkedTitles(last.ret.app, last.ret.test)

====
